---- MODULE Spec2Model ----
(***************************************************************************)
(* A model of homework.py: the InfoMessage formatter, the Training class   *)
(* hierarchy (Running, SportsWalking, Swimming), the factory read_package  *)
(* and the driver loop under __main__.                                     *)
(*                                                                         *)
(* Numbers.  Python ints and floats are modelled as exact non-negative     *)
(* rationals n/d (the program never subtracts and never reads a negative   *)
(* value).  Numerators and denominators outgrow 32 bits, so they are       *)
(* unbounded naturals kept as little-endian sequences of limbs in          *)
(* 0..9999 without high zero limbs.  Floating-point rounding error is      *)
(* therefore abstracted away; '{:.3f}' rounds the exact value half to      *)
(* even, which is what Python does for every value a float holds exactly.  *)
(*                                                                         *)
(* Text.  A Python str is modelled as the sequence of its code points.     *)
(***************************************************************************)
EXTENDS Integers, Sequences

VARIABLES
    packages,   \* __main__: the list of (workout_type, data) pairs
    idx,        \* __main__: 1-based position of the for loop
    status,     \* __main__: "running", "done" (loop ended) or "aborted"
    error,      \* __main__: the exception that ended the process, or NoError
    stdout,     \* __main__: the lines print() has written, oldest first
    training,   \* __main__: the module-level variable training (None at first)
    objs,       \* API runs: the Training instances that exist
    infos,      \* API runs: the InfoMessage instances that exist
    ret         \* API runs: the last call made and what it returned or raised

vars == <<packages, idx, status, error, stdout, training, objs, infos, ret>>

driverVars == <<packages, idx, status, error, stdout, training>>

apiVars == <<objs, infos, ret>>

(***************************************************************************)
(* Unbounded naturals                                                      *)
(***************************************************************************)
RECURSIVE BNFromNat(_)
BNFromNat(n) == IF n = 0 THEN <<>> ELSE <<n % 10000>> \o BNFromNat(n \div 10000)

RECURSIVE BNStrip(_)
BNStrip(a) ==
    IF a = <<>> THEN <<>>
    ELSE IF a[Len(a)] = 0 THEN BNStrip(SubSeq(a, 1, Len(a) - 1))
    ELSE a

RECURSIVE BNAddC(_, _, _)
BNAddC(a, b, c) ==
    IF a = <<>> /\ b = <<>> THEN (IF c = 0 THEN <<>> ELSE <<c>>)
    ELSE LET x == IF a = <<>> THEN 0 ELSE Head(a)
             y == IF b = <<>> THEN 0 ELSE Head(b)
             s == x + y + c
         IN  <<s % 10000>> \o BNAddC(IF a = <<>> THEN <<>> ELSE Tail(a),
                                     IF b = <<>> THEN <<>> ELSE Tail(b),
                                     s \div 10000)

BNAdd(a, b) == BNAddC(a, b, 0)

RECURSIVE BNMulLimbC(_, _, _)
BNMulLimbC(a, k, c) ==
    IF a = <<>> THEN (IF c = 0 THEN <<>> ELSE <<c>>)
    ELSE LET p == Head(a) * k + c
         IN  <<p % 10000>> \o BNMulLimbC(Tail(a), k, p \div 10000)

BNMulLimb(a, k) == IF k = 0 THEN <<>> ELSE BNMulLimbC(a, k, 0)

BNShift(a) == IF a = <<>> THEN <<>> ELSE <<0>> \o a

RECURSIVE BNMul(_, _)
BNMul(a, b) ==
    IF a = <<>> \/ b = <<>> THEN <<>>
    ELSE BNAdd(BNMulLimb(a, Head(b)), BNShift(BNMul(a, Tail(b))))

RECURSIVE BNLessFrom(_, _, _)
\* a < b for two numbers of the same length, comparing limbs i, i-1, ..., 1
BNLessFrom(a, b, i) ==
    IF i = 0 THEN FALSE
    ELSE IF a[i] # b[i] THEN a[i] < b[i]
    ELSE BNLessFrom(a, b, i - 1)

BNLess(a, b) ==
    IF Len(a) # Len(b) THEN Len(a) < Len(b) ELSE BNLessFrom(a, b, Len(a))

BNLeq(a, b) == ~BNLess(b, a)

RECURSIVE BNSubB(_, _, _)
\* a - b - c for a >= b + c, limb by limb with borrow c
BNSubB(a, b, c) ==
    IF a = <<>> THEN <<>>
    ELSE LET y == IF b = <<>> THEN 0 ELSE Head(b)
             t == Head(a) - y - c
         IN  <<IF t < 0 THEN t + 10000 ELSE t>>
                 \o BNSubB(Tail(a), IF b = <<>> THEN <<>> ELSE Tail(b),
                           IF t < 0 THEN 1 ELSE 0)

BNSub(a, b) == BNStrip(BNSubB(a, b, 0))

RECURSIVE BNQuotLimb(_, _, _, _)
\* the largest k in lo..hi with k * b <= r (lo * b <= r is given)
BNQuotLimb(r, b, lo, hi) ==
    IF lo = hi THEN lo
    ELSE LET mid == (lo + hi + 1) \div 2
         IN  IF BNLeq(BNMulLimb(b, mid), r)
             THEN BNQuotLimb(r, b, mid, hi)
             ELSE BNQuotLimb(r, b, lo, mid - 1)

RECURSIVE BNDivModFrom(_, _, _, _, _)
\* long division of a by b # 0, limbs i, i-1, ..., 1 of a still to bring down
BNDivModFrom(a, b, i, q, r) ==
    IF i = 0 THEN [q |-> BNStrip(q), r |-> r]
    ELSE LET r1 == BNStrip(<<a[i]>> \o r)
             k  == BNQuotLimb(r1, b, 0, 9999)
         IN  BNDivModFrom(a, b, i - 1, <<k>> \o q, BNSub(r1, BNMulLimb(b, k)))

BNDivMod(a, b) == BNDivModFrom(a, b, Len(a), <<>>, <<>>)

BNOdd(a) == a # <<>> /\ a[1] % 2 = 1

(***************************************************************************)
(* Non-negative rationals                                                  *)
(***************************************************************************)
Rat(n, d) == [n |-> BNFromNat(n), d |-> BNFromNat(d)]

Q(n) == Rat(n, 1)

RMul(x, y) == [n |-> BNMul(x.n, y.n), d |-> BNMul(x.d, y.d)]

\* x / y for y # 0
RDiv(x, y) == [n |-> BNMul(x.n, y.d), d |-> BNMul(x.d, y.n)]

RAdd(x, y) == [n |-> BNAdd(BNMul(x.n, y.d), BNMul(y.n, x.d)), d |-> BNMul(x.d, y.d)]

RIsZero(x) == x.n = <<>>

REq(x, y) == BNMul(x.n, y.d) = BNMul(y.n, x.d)

RLeq(x, y) == BNLeq(BNMul(x.n, y.d), BNMul(y.n, x.d))

(***************************************************************************)
(* Text                                                                    *)
(***************************************************************************)
\* the code points of the identifiers the program handles as str
Chars(s) ==
    CASE s = "SWM" -> <<83, 87, 77>>
      [] s = "RUN" -> <<82, 85, 78>>
      [] s = "WLK" -> <<87, 76, 75>>
      [] s = "XYZ" -> <<88, 89, 90>>
      [] s = "Training" -> <<84, 114, 97, 105, 110, 105, 110, 103>>
      [] s = "Running" -> <<82, 117, 110, 110, 105, 110, 103>>
      [] s = "SportsWalking" ->
             <<83, 112, 111, 114, 116, 115, 87, 97, 108, 107, 105, 110, 103>>
      [] s = "Swimming" -> <<83, 119, 105, 109, 109, 105, 110, 103>>

RECURSIVE BNDecimal(_)
\* the decimal digits of a, most significant first, none for 0
BNDecimal(a) ==
    IF a = <<>> THEN <<>>
    ELSE LET k  == Head(a)
             lo == <<k \div 1000, (k \div 100) % 10, (k \div 10) % 10, k % 10>>
         IN  IF Len(a) = 1
             THEN SubSeq(lo, CHOOSE i \in 1..4 : lo[i] # 0 /\ \A j \in 1..(i - 1) : lo[j] = 0, 4)
             ELSE BNDecimal(Tail(a)) \o lo

\* n / d rounded to the nearest natural, a tie to the even one
RoundHalfEven(q, r, d) ==
    IF BNLess(d, BNAdd(r, r)) \/ (BNAdd(r, r) = d /\ BNOdd(q))
    THEN BNAdd(q, <<1>>)
    ELSE q

RoundQuot(dm, d) == RoundHalfEven(dm.q, dm.r, d)

RoundDiv(n, d) == RoundQuot(BNDivMod(n, d), d)

\* at least four digits, zeros in front
ZeroPad4(ds) == IF Len(ds) < 4 THEN [i \in 1..(4 - Len(ds)) |-> 0] \o ds ELSE ds

\* the characters of the digits ds with a point before the last three
Point3(ds) ==
    [i \in 1..(Len(ds) - 3) |-> 48 + ds[i]] \o <<46>>
        \o [i \in 1..3 |-> 48 + ds[Len(ds) - 3 + i]]

\* format(x, '.3f'): x rounded half to even to a multiple of 1/1000, written
\* with at least one digit before the point and exactly three after it
Format3f(x) ==
    Point3(ZeroPad4(BNDecimal(RoundDiv(BNMul(x.n, BNFromNat(1000)), x.d))))

(***************************************************************************)
(* class InfoMessage                                                       *)
(***************************************************************************)
\* MESSAGE with the replacement fields distance and speed exchanged
MESSAGE_FieldsExchanged ==
    << <<"text", <<1058, 1080, 1087, 32, 1090, 1088, 1077, 1085, 1080, 1088, 1086,
                   1074, 1082, 1080, 58, 32>> >>,
       <<"{}", "training_type">>,
       <<"text", <<59, 32, 1044, 1083, 1080, 1090, 1077, 1083, 1100, 1085, 1086,
                   1089, 1090, 1100, 58, 32>> >>,
       <<"{:.3f}", "duration">>,
       <<"text", <<32, 1095, 46, 59, 32, 1044, 1080, 1089, 1090, 1072, 1085, 1094,
                   1080, 1103, 58, 32>> >>,
       <<"{:.3f}", "speed">>,
       <<"text", <<32, 1082, 1084, 59, 32, 1057, 1088, 46, 32, 1089, 1082, 1086,
                   1088, 1086, 1089, 1090, 1100, 58, 32>> >>,
       <<"{:.3f}", "distance">>,
       <<"text", <<32, 1082, 1084, 47, 1095, 59, 32, 1055, 1086, 1090, 1088, 1072,
                   1095, 1077, 1085, 1086, 32, 1082, 1082, 1072, 1083, 58, 32>> >>,
       <<"{:.3f}", "calories">>,
       <<"text", <<46>> >> >>

\* InfoMessage.MESSAGE: literal text and replacement fields, in order
MESSAGE ==
    << <<"text", <<1058, 1080, 1087, 32, 1090, 1088, 1077, 1085, 1080, 1088, 1086,
                   1074, 1082, 1080, 58, 32>> >>,
       <<"{}", "training_type">>,
       <<"text", <<59, 32, 1044, 1083, 1080, 1090, 1077, 1083, 1100, 1085, 1086,
                   1089, 1090, 1100, 58, 32>> >>,
       <<"{:.3f}", "duration">>,
       <<"text", <<32, 1095, 46, 59, 32, 1044, 1080, 1089, 1090, 1072, 1085, 1094,
                   1080, 1103, 58, 32>> >>,
       <<"{:.3f}", "distance">>,
       <<"text", <<32, 1082, 1084, 59, 32, 1057, 1088, 46, 32, 1089, 1082, 1086,
                   1088, 1086, 1089, 1090, 1100, 58, 32>> >>,
       <<"{:.3f}", "speed">>,
       <<"text", <<32, 1082, 1084, 47, 1095, 59, 32, 1055, 1086, 1090, 1088, 1072,
                   1095, 1077, 1085, 1086, 32, 1082, 1082, 1072, 1083, 58, 32>> >>,
       <<"{:.3f}", "calories">>,
       <<"text", <<46>> >> >>

RECURSIVE StrFormat(_, _)
\* str.format(**kw) of a template given as its parts
StrFormat(tpl, kw) ==
    IF tpl = <<>> THEN <<>>
    ELSE LET part == Head(tpl)
             out  == CASE part[1] = "text" -> part[2]
                       [] part[1] = "{}" -> Chars(kw[part[2]])
                       [] part[1] = "{:.3f}" -> Format3f(kw[part[2]])
         IN  out \o StrFormat(Tail(tpl), kw)

\* InfoMessage(training_type, duration, distance, speed, calories)
InfoMessage(training_type, duration, distance, speed, calories) ==
    [training_type |-> training_type, duration |-> duration, distance |-> distance,
     speed |-> speed, calories |-> calories]

get_message(self) == StrFormat(MESSAGE, self)

(***************************************************************************)
(* Calls: what a call returns, or the exception it raises                  *)
(***************************************************************************)
Ok(v) == [exc |-> "None", val |-> v]

\* msg: the text the exception carries where the program builds it, else <<>>
Raise(e, msg) == [exc |-> e, val |-> msg]

Raised(r) == r.exc # "None"

\* the rest of a computation that first needs the value of the call r: an
\* exception raised by r ends it
Then(r, F(_)) == IF Raised(r) THEN r ELSE F(r.val)

(***************************************************************************)
(* class Training and its subclasses.  An instance is its class and its    *)
(* instance attributes (__dict__).                                         *)
(***************************************************************************)
NoAttrs == [a \in {} |-> 0]

Instance(cls, attrs) == [cls |-> cls, attrs |-> attrs]

Has(self, a) == a \in DOMAIN self.attrs

M_IN_KM == 1000

MIN_IN_H == 60

\* Training.LEN_STEP = 0.65, Swimming.LEN_STEP = 1.38
LEN_STEP(cls) == IF cls = "Swimming" THEN Rat(138, 100) ELSE Rat(65, 100)

Running_CALORIES_MEAN_SPEED_SHIFT == Rat(179, 100)

Running_CALORIES_MEAN_SPEED_MULTIPLIER == 18

SportsWalking_CALORIES_WEIGHT_MULTIPLIER == Rat(35, 1000)

KMH_IN_MSEC == Rat(278, 1000)

CALORIES_SPEED_HEIGHT_MULTIPLIER == Rat(29, 1000)

CM_IN_M == 100

HOUR_IN_MINUT == 360

Swimming_CALORIES_MEAN_SPEED_SHIFT == Rat(11, 10)

Swimming_CALORIES_WEIGHT_MULTIPLIER == 2

\* Training.get_distance: self.action * self.LEN_STEP / self.M_IN_KM
get_distance(self) ==
    IF ~Has(self, "action") THEN Raise("AttributeError", <<>>)
    ELSE Ok(RDiv(RMul(Q(self.attrs.action), LEN_STEP(self.cls)), Q(M_IN_KM)))

\* Training.get_mean_speed: self.get_distance() / self.duration
Training_get_mean_speed(self) ==
    Then(get_distance(self), LAMBDA dist :
        IF ~Has(self, "duration") THEN Raise("AttributeError", <<>>)
        ELSE IF self.attrs.duration = 0 THEN Raise("ZeroDivisionError", <<>>)
        ELSE Ok(RDiv(dist, Q(self.attrs.duration))))

\* Swimming.get_mean_speed:
\* self.lenght_pool * self.count_pool / self.M_IN_KM / self.duration
Swimming_get_mean_speed(self) ==
    IF ~Has(self, "lenght_pool") \/ ~Has(self, "count_pool") \/ ~Has(self, "duration")
    THEN Raise("AttributeError", <<>>)
    ELSE IF self.attrs.duration = 0 THEN Raise("ZeroDivisionError", <<>>)
    ELSE Ok(RDiv(RDiv(RMul(Q(self.attrs.lenght_pool), Q(self.attrs.count_pool)),
                      Q(M_IN_KM)),
                 Q(self.attrs.duration)))

\* get_mean_speed without the override of Swimming
get_mean_speed_NoOverride(self) == Training_get_mean_speed(self)

\* self.get_mean_speed(), resolved along the class of self
get_mean_speed(self) ==
    IF self.cls = "Swimming" THEN Swimming_get_mean_speed(self)
    ELSE Training_get_mean_speed(self)

\* Training.get_spent_calories: "raise not NotImplementedError(...)" builds the
\* exception, negates it to False and raises that: a TypeError
Training_get_spent_calories(self) == Raise("TypeError", <<>>)

\* Running.get_spent_calories:
\* (MULTIPLIER * speed + SHIFT) * weight / M_IN_KM * duration * MIN_IN_H
Running_get_spent_calories(self) ==
    Then(get_mean_speed(self), LAMBDA speed :
        IF ~Has(self, "weight") THEN Raise("AttributeError", <<>>)
        ELSE Ok(RMul(RMul(RDiv(RMul(RAdd(RMul(Q(Running_CALORIES_MEAN_SPEED_MULTIPLIER),
                                              speed),
                                         Running_CALORIES_MEAN_SPEED_SHIFT),
                                    Q(self.attrs.weight)),
                               Q(M_IN_KM)),
                          Q(self.attrs.duration)),
                     Q(MIN_IN_H))))

\* x ** 2
RSquare(x) == RMul(x, x)

\* SportsWalking.get_spent_calories with HOUR_IN_MINUT for the minutes of an hour
SportsWalking_get_spent_calories_HourInMinut(self) ==
    IF ~Has(self, "weight") THEN Raise("AttributeError", <<>>)
    ELSE Then(get_mean_speed(self), LAMBDA speed :
        IF ~Has(self, "height") THEN Raise("AttributeError", <<>>)
        ELSE IF self.attrs.height = 0 THEN Raise("ZeroDivisionError", <<>>)
        ELSE Ok(RMul(RAdd(RMul(SportsWalking_CALORIES_WEIGHT_MULTIPLIER,
                               Q(self.attrs.weight)),
                          RMul(RMul(RDiv(RSquare(RMul(speed, KMH_IN_MSEC)),
                                         RDiv(Q(self.attrs.height), Q(CM_IN_M))),
                                    CALORIES_SPEED_HEIGHT_MULTIPLIER),
                               Q(self.attrs.weight))),
                     RMul(Q(self.attrs.duration), Q(HOUR_IN_MINUT)))))

\* SportsWalking.get_spent_calories:
\* (WEIGHT_MULTIPLIER * weight + ((speed * KMH_IN_MSEC) ** 2 / (height / CM_IN_M))
\*  * SPEED_HEIGHT_MULTIPLIER * weight) * (duration * MIN_IN_H)
SportsWalking_get_spent_calories(self) ==
    IF ~Has(self, "weight") THEN Raise("AttributeError", <<>>)
    ELSE Then(get_mean_speed(self), LAMBDA speed :
        IF ~Has(self, "height") THEN Raise("AttributeError", <<>>)
        ELSE IF self.attrs.height = 0 THEN Raise("ZeroDivisionError", <<>>)
        ELSE Ok(RMul(RAdd(RMul(SportsWalking_CALORIES_WEIGHT_MULTIPLIER,
                               Q(self.attrs.weight)),
                          RMul(RMul(RDiv(RSquare(RMul(speed, KMH_IN_MSEC)),
                                         RDiv(Q(self.attrs.height), Q(CM_IN_M))),
                                    CALORIES_SPEED_HEIGHT_MULTIPLIER),
                               Q(self.attrs.weight))),
                     RMul(Q(self.attrs.duration), Q(MIN_IN_H)))))

\* Swimming.get_spent_calories:
\* (speed + SHIFT) * WEIGHT_MULTIPLIER * weight * duration
Swimming_get_spent_calories(self) ==
    Then(get_mean_speed(self), LAMBDA speed :
        IF ~Has(self, "weight") THEN Raise("AttributeError", <<>>)
        ELSE Ok(RMul(RMul(RMul(RAdd(speed, Swimming_CALORIES_MEAN_SPEED_SHIFT),
                               Q(Swimming_CALORIES_WEIGHT_MULTIPLIER)),
                          Q(self.attrs.weight)),
                     Q(self.attrs.duration))))

\* self.get_spent_calories(), resolved along the class of self
get_spent_calories(self) ==
    CASE self.cls = "Running" -> Running_get_spent_calories(self)
      [] self.cls = "SportsWalking" -> SportsWalking_get_spent_calories(self)
      [] self.cls = "Swimming" -> Swimming_get_spent_calories(self)
      [] OTHER -> Training_get_spent_calories(self)

\* Training.show_training_info: the arguments of InfoMessage(...) are
\* evaluated left to right, the first exception ends the call
show_training_info(self) ==
    IF ~Has(self, "duration") THEN Raise("AttributeError", <<>>)
    ELSE Then(get_distance(self), LAMBDA dist :
         Then(get_mean_speed(self), LAMBDA speed :
         Then(get_spent_calories(self), LAMBDA cal :
             Ok(InfoMessage(self.cls, Q(self.attrs.duration), dist, speed, cal)))))

(***************************************************************************)
(* Construction.  Training declares its fields but defines no __init__     *)
(* and is not a dataclass, so its __init__ is object.__init__.             *)
(***************************************************************************)
\* object.__init__(self, *args) for a class that does not override __new__
object__init__(self, args) ==
    IF Len(args) = 0 THEN Ok(self) ELSE Raise("TypeError", <<>>)

\* Training.__init__ and Running.__init__: inherited from object
Training__init__(self, args) == object__init__(self, args)

\* SportsWalking.__init__(self, action, duration, weight, height)
SportsWalking__init__(self, args) ==
    IF Len(args) # 4 THEN Raise("TypeError", <<>>)
    ELSE Then(Training__init__(self, SubSeq(args, 1, 3)), LAMBDA base :
             Ok(Instance(base.cls,
                         [a \in DOMAIN base.attrs \cup {"height"} |->
                              IF a = "height" THEN args[4] ELSE base.attrs[a]])))

\* Swimming.__init__(self, action, duration, weight, length_pool, count_pool)
Swimming__init__(self, args) ==
    IF Len(args) # 5 THEN Raise("TypeError", <<>>)
    ELSE Then(Training__init__(self, SubSeq(args, 1, 3)), LAMBDA base :
             Ok(Instance(base.cls,
                         [a \in DOMAIN base.attrs \cup {"lenght_pool", "count_pool"} |->
                              CASE a = "lenght_pool" -> args[4]
                                [] a = "count_pool" -> args[5]
                                [] OTHER -> base.attrs[a]])))

\* cls(*args): a new instance without attributes, then its __init__
New(cls, args) ==
    CASE cls = "SportsWalking" -> SportsWalking__init__(Instance(cls, NoAttrs), args)
      [] cls = "Swimming" -> Swimming__init__(Instance(cls, NoAttrs), args)
      [] OTHER -> Training__init__(Instance(cls, NoAttrs), args)

(***************************************************************************)
(* read_package, main                                                      *)
(***************************************************************************)
training_comparsion ==
    [c \in {"SWM", "RUN", "WLK"} |->
        CASE c = "SWM" -> "Swimming" [] c = "RUN" -> "Running" [] c = "WLK" -> "SportsWalking"]

\* read_package looking the code up with Running as the default
read_package_DefaultRunning(type_training, data) ==
    IF type_training \in DOMAIN training_comparsion
    THEN New(training_comparsion[type_training], data)
    ELSE New("Running", data)

\* KeyError(f'<no data about the training> {type_training}.')
read_package(type_training, data) ==
    IF type_training \in DOMAIN training_comparsion
    THEN New(training_comparsion[type_training], data)
    ELSE Raise("KeyError",
               <<1053, 1077, 1090, 32, 1076, 1072, 1085, 1085, 1099, 1093, 32, 1086, 32,
                 1090, 1088, 1077, 1085, 1080, 1088, 1086, 1074, 1082, 1077, 32>>
                   \o Chars(type_training) \o <<46>>)

\* main(training): the line print() writes, or the exception raised before it
main(t) == Then(show_training_info(t), LAMBDA info : Ok(get_message(info)))

(***************************************************************************)
(* Bounds and input sets                                                   *)
(***************************************************************************)
MaxPackages == 3

MaxDuration == 2

MaxInfos == 1

Codes == {"SWM", "RUN", "WLK", "XYZ"}

\* the parameter lists of the packages under __main__, and the empty list
DataSamples == {<<720, 1, 80, 25, 40>>, <<15000, 1, 75>>, <<9000, 1, 75, 180>>, <<>>}

Package(code, data) == [code |-> code, data |-> data]

Packages == {Package(c, d) : c \in Codes, d \in DataSamples}

PackageLists == UNION {[1..n -> Packages] : n \in 0..MaxPackages}

\* the list packages under __main__
SamplePackages ==
    <<Package("SWM", <<720, 1, 80, 25, 40>>), Package("RUN", <<15000, 1, 75>>),
      Package("WLK", <<9000, 1, 75, 180>>)>>

Actions == {720, 15000}

Durations == 0..MaxDuration

Weights == {75, 80}

Heights == {0, 180}

PoolLengths == {25, 50}

PoolCounts == {40}

BaseAttrs == [action : Actions, duration : Durations, weight : Weights]

\* instances whose attributes hold values of the declared fields
Trainings ==
    {Instance(c, a) : c \in {"Training", "Running"}, a \in BaseAttrs}
    \cup {Instance("SportsWalking", a) :
            a \in [action : Actions, duration : Durations, weight : Weights,
                   height : Heights]}
    \cup {Instance("Swimming", a) :
            a \in [action : Actions, duration : Durations, weight : Weights,
                   lenght_pool : PoolLengths, count_pool : PoolCounts]}

\* the instances the packages under __main__ describe, and a base instance
SampleTrainings ==
    {Instance("Swimming", [action |-> 720, duration |-> 1, weight |-> 80,
                           lenght_pool |-> 25, count_pool |-> 40]),
     Instance("Running", [action |-> 15000, duration |-> 1, weight |-> 75]),
     Instance("SportsWalking", [action |-> 9000, duration |-> 1, weight |-> 75,
                                height |-> 180]),
     Instance("Training", [action |-> 15000, duration |-> 1, weight |-> 75])}

\* summaries built directly, of values a float holds exactly
InfoSamples ==
    {InfoMessage(k, Q(h), Rat(n, 16), Rat(m, 2), Rat(c, 8)) :
        k \in {"Running", "Swimming"}, h \in 1..MaxDuration, n \in {1, 3, 144},
        m \in {0, 19999}, c \in {5, 6400001}}

NoError == [exc |-> "None", val |-> <<>>]

None == [cls |-> "NoneType", attrs |-> NoAttrs]

NoCall == [op |-> "none", arg |-> <<>>, res |-> NoError]

Call(op, arg, res) == [op |-> op, arg |-> arg, res |-> res]

(***************************************************************************)
(* The driver: the loop under __main__                                     *)
(***************************************************************************)
Init ==
    /\ packages \in PackageLists
    /\ idx = 1
    /\ status = "running"
    /\ error = NoError
    /\ stdout = <<>>
    /\ training = None
    /\ objs = <<>>
    /\ infos = <<>>
    /\ ret = NoCall

\* one pass of the loop body: training = read_package(...); main(training)
Iterate ==
    /\ status = "running"
    /\ idx <= Len(packages)
    /\ \E made \in {read_package(packages[idx].code, packages[idx].data)} :
       \E line \in {Then(made, LAMBDA t : main(t))} :
           IF Raised(made)
           THEN /\ status' = "aborted"
                /\ error' = made
                /\ UNCHANGED <<idx, stdout, training>>
           ELSE IF Raised(line)
           THEN /\ training' = made.val
                /\ status' = "aborted"
                /\ error' = line
                /\ UNCHANGED <<idx, stdout>>
           ELSE /\ training' = made.val
                /\ stdout' = Append(stdout, line.val)
                /\ idx' = idx + 1
                /\ UNCHANGED <<status, error>>
    /\ UNCHANGED <<packages, apiVars>>

\* the list is exhausted: the script ends normally
LoopExit ==
    /\ status = "running"
    /\ idx > Len(packages)
    /\ status' = "done"
    /\ UNCHANGED <<packages, idx, error, stdout, training, apiVars>>

Next == Iterate \/ LoopExit

Spec == Init /\ [][Next]_vars

(***************************************************************************)
(* The functions and methods called one at a time on existing instances    *)
(***************************************************************************)
\* Either one training instance, or two of the sample instances, or one
\* summary built by InfoMessage(...) directly.  A training instance here has
\* its declared fields assigned; no constructor call of the program yields
\* one (see Training__init__), so these runs say what the methods do once an
\* instance holds its fields.
InitApi ==
    /\ packages = <<>>
    /\ idx = 1
    /\ status = "running"
    /\ error = NoError
    /\ stdout = <<>>
    /\ training = None
    /\ ret = NoCall
    /\ \/ objs \in {<<t>> : t \in Trainings} /\ infos = <<>>
       \/ objs \in [1..2 -> SampleTrainings] /\ infos = <<>>
       \/ objs = <<>> /\ infos \in {<<m>> : m \in InfoSamples}

\* the caller keeps what read_package returns; it joins no other instance
CallReadPackage(code, data) ==
    /\ ret' = Call("read_package", <<code, data>>, read_package(code, data))
    /\ UNCHANGED <<objs, infos, driverVars>>

CallGetDistance(i) ==
    /\ ret' = Call("get_distance", i, get_distance(objs[i]))
    /\ UNCHANGED <<objs, infos, driverVars>>

CallGetMeanSpeed(i) ==
    /\ ret' = Call("get_mean_speed", i, get_mean_speed(objs[i]))
    /\ UNCHANGED <<objs, infos, driverVars>>

CallGetSpentCalories(i) ==
    /\ ret' = Call("get_spent_calories", i, get_spent_calories(objs[i]))
    /\ UNCHANGED <<objs, infos, driverVars>>

\* show_training_info filling one summary object that every call shares
CallShowTrainingInfo_SharedSummary(i) ==
    \E r \in {show_training_info(objs[i])} :
        /\ ret' = Call("show_training_info", i, r)
        /\ infos' = IF Raised(r) THEN infos
                    ELSE IF infos = <<>> THEN <<r.val>>
                    ELSE [infos EXCEPT ![1] = r.val]
        /\ UNCHANGED <<objs, driverVars>>

CallShowTrainingInfo(i) ==
    \E r \in {show_training_info(objs[i])} :
        /\ Raised(r) \/ Len(infos) < MaxInfos
        /\ ret' = Call("show_training_info", i, r)
        /\ infos' = IF Raised(r) THEN infos ELSE Append(infos, r.val)
        /\ UNCHANGED <<objs, driverVars>>

CallGetMessage(j) ==
    /\ ret' = Call("get_message", j, Ok(get_message(infos[j])))
    /\ UNCHANGED <<objs, infos, driverVars>>

NextApi ==
    \/ \E c \in Codes, d \in DataSamples : CallReadPackage(c, d)
    \/ \E i \in DOMAIN objs : CallGetDistance(i)
    \/ \E i \in DOMAIN objs : CallGetMeanSpeed(i)
    \/ \E i \in DOMAIN objs : CallGetSpentCalories(i)
    \/ \E i \in DOMAIN objs : CallShowTrainingInfo(i)
    \/ \E j \in DOMAIN infos : CallGetMessage(j)

SpecApi == InitApi /\ [][NextApi]_vars

(***************************************************************************)
(* Vocabulary of the properties                                            *)
(***************************************************************************)
Recognized == {"SWM", "RUN", "WLK"}

VariantOf(code) ==
    CASE code = "SWM" -> "Swimming" [] code = "RUN" -> "Running"
      [] code = "WLK" -> "SportsWalking"

ParamCount(code) == CASE code = "SWM" -> 5 [] code = "RUN" -> 3 [] code = "WLK" -> 4

\* a recognized code with a parameter list of the matching length
WellFormed(code, data) == code \in Recognized /\ Len(data) = ParamCount(code)

\* the training whose fields hold the parameters in positional order
Positional(code, data) ==
    Instance(VariantOf(code),
             CASE code = "RUN" ->
                    [action |-> data[1], duration |-> data[2], weight |-> data[3]]
               [] code = "WLK" ->
                    [action |-> data[1], duration |-> data[2], weight |-> data[3],
                     height |-> data[4]]
               [] code = "SWM" ->
                    [action |-> data[1], duration |-> data[2], weight |-> data[3],
                     lenght_pool |-> data[4], count_pool |-> data[5]])

\* LookupError and its subclasses among the exceptions of the model
LookupErrors == {"LookupError", "KeyError", "IndexError"}

StartsAt(s, i, p) ==
    /\ i + Len(p) - 1 <= Len(s)
    /\ \A k \in 1..Len(p) : s[i + k - 1] = p[k]

Contains(s, p) == \E i \in 1..Len(s) : StartsAt(s, i, p)

IsDigit(c) == c \in 48..57

RECURSIVE DigitsEnd(_, _)
\* the first position from i on that holds no digit
DigitsEnd(s, i) == IF i <= Len(s) /\ IsDigit(s[i]) THEN DigitsEnd(s, i + 1) ELSE i

\* s[i..] starts with digits, a point and three digits: the position after them, else 0
FixedEnd(s, i) ==
    IF /\ DigitsEnd(s, i) > i
       /\ DigitsEnd(s, i) + 3 <= Len(s)
       /\ s[DigitsEnd(s, i)] = 46
       /\ \A k \in 1..3 : IsDigit(s[DigitsEnd(s, i) + k])
    THEN DigitsEnd(s, i) + 4
    ELSE 0

RECURSIVE Thousandths(_, _, _, _)
\* the natural the digits of s[i..j-1] spell, the point left out
Thousandths(s, i, j, acc) ==
    IF i >= j THEN acc
    ELSE IF s[i] = 46 THEN Thousandths(s, i + 1, j, acc)
    ELSE Thousandths(s, i + 1, j, BNAdd(BNMulLimb(acc, 10), BNFromNat(s[i] - 48)))

\* t / 1000 is within half a thousandth of x
NearThousandths(t, x) ==
    /\ BNLeq(BNMul(BNMulLimb(t, 2), x.d), BNAdd(BNMul(BNFromNat(2000), x.n), x.d))
    /\ BNLeq(BNMul(BNFromNat(2000), x.n), BNAdd(BNMul(BNMulLimb(t, 2), x.d), x.d))

\* at i: the label, then x written with exactly three decimals; the position after
NumberField(s, i, label, x) ==
    IF /\ i > 0
       /\ StartsAt(s, i, label)
       /\ FixedEnd(s, i + Len(label)) > 0
       /\ NearThousandths(Thousandths(s, i + Len(label), FixedEnd(s, i + Len(label)), <<>>), x)
    THEN FixedEnd(s, i + Len(label))
    ELSE 0

\* the position after the four number fields of the template, else 0
NumbersEnd(s, l, m) ==
    NumberField(s,
      NumberField(s,
        NumberField(s,
          NumberField(s, 1 + Len(l[1]) + Len(Chars(m.training_type)), l[2], m.duration),
          l[3], m.distance),
        l[4], m.speed),
      l[5], m.calories)

\* s is: l[1] kind l[2] duration l[3] distance l[4] speed l[5] calories l[6],
\* every number with exactly three decimals and within 0.0005 of the field
FollowsTemplate(s, l, m) ==
    /\ StartsAt(s, 1, l[1] \o Chars(m.training_type))
    /\ NumbersEnd(s, l, m) > 0
    /\ StartsAt(s, NumbersEnd(s, l, m), l[6])
    /\ Len(s) = NumbersEnd(s, l, m) + Len(l[6]) - 1

\* "Training type: ", "; Duration: ", " h; Distance: ", " km; Avg speed: ",
\* " km/h; Calories: ", "."
EnglishLabels ==
    << <<84, 114, 97, 105, 110, 105, 110, 103, 32, 116, 121, 112, 101, 58, 32>>,
       <<59, 32, 68, 117, 114, 97, 116, 105, 111, 110, 58, 32>>,
       <<32, 104, 59, 32, 68, 105, 115, 116, 97, 110, 99, 101, 58, 32>>,
       <<32, 107, 109, 59, 32, 65, 118, 103, 32, 115, 112, 101, 101, 100, 58, 32>>,
       <<32, 107, 109, 47, 104, 59, 32, 67, 97, 108, 111, 114, 105, 101, 115, 58, 32>>,
       <<46>> >>

\* the labels of the program's message, in Russian: "Tip trenirovki: ",
\* "; Dlitel'nost': ", " ch.; Distantsiya: ", " km; Sr. skorost': ",
\* " km/ch; Potracheno kkal: ", "."
RussianLabels ==
    << <<1058, 1080, 1087, 32, 1090, 1088, 1077, 1085, 1080, 1088, 1086, 1074, 1082,
         1080, 58, 32>>,
       <<59, 32, 1044, 1083, 1080, 1090, 1077, 1083, 1100, 1085, 1086, 1089, 1090,
         1100, 58, 32>>,
       <<32, 1095, 46, 59, 32, 1044, 1080, 1089, 1090, 1072, 1085, 1094, 1080, 1103,
         58, 32>>,
       <<32, 1082, 1084, 59, 32, 1057, 1088, 46, 32, 1089, 1082, 1086, 1088, 1086,
         1089, 1090, 1100, 58, 32>>,
       <<32, 1082, 1084, 47, 1095, 59, 32, 1055, 1086, 1090, 1088, 1072, 1095, 1077,
         1085, 1086, 32, 1082, 1082, 1072, 1083, 58, 32>>,
       <<46>> >>

\* the kind the i-th printed line names is the variant of the i-th package
LineOfRecord(i) ==
    StartsAt(stdout[i], 1,
             RussianLabels[1] \o Chars(VariantOf(packages[i].code)) \o <<59>>)

\* x is within tol of n / d
Near(x, n, d, tol) ==
    /\ RLeq(x, RAdd(Rat(n, d), tol))
    /\ RLeq(Rat(n, d), RAdd(x, tol))

(***************************************************************************)
(* C1.  read_package(code, params) with a recognized code and a parameter  *)
(* list of the matching length returns, without error, a training of the   *)
(* matching variant whose fields hold the parameters in positional order.  *)
(***************************************************************************)
C1_FactoryBuildsVariant ==
    (ret.op = "read_package" /\ WellFormed(ret.arg[1], ret.arg[2]))
        => /\ ~Raised(ret.res)
           /\ ret.res.val = Positional(ret.arg[1], ret.arg[2])

(***************************************************************************)
(* C2.  read_package with a code other than SWM, RUN, WLK, whatever the    *)
(* parameters, raises a LookupError-kind error (KeyError) whose message    *)
(* carries the code; it returns no training.                               *)
(***************************************************************************)
C2_UnknownCodeRaisesLookupError ==
    (ret.op = "read_package" /\ ret.arg[1] \notin Recognized)
        => /\ Raised(ret.res)
           /\ ret.res.exc \in LookupErrors
           /\ Contains(ret.res.val, Chars(ret.arg[1]))

C2_Witness ==
    /\ ret.op = "read_package"
    /\ ret.arg = <<"XYZ", <<15000, 1, 75>>>>
    /\ ret.res.exc = "KeyError"

C4_DriverPrintsThreeLines ==
    (packages = SamplePackages /\ status # "running")
        => /\ status = "done"
           /\ Len(stdout) = 3
           /\ \A i \in 1..3 : LineOfRecord(i)

(***************************************************************************)
(* C5.  read_package('RUN', [15000, 1, 75]) followed by                    *)
(* show_training_info gives a summary of kind Running with distance about  *)
(* 9.75, mean speed about 9.75 and calories about 78.68, the calories      *)
(* being (18 * speed + 1.79) * weight / 1000 * duration * 60.              *)
(***************************************************************************)
C5_SummaryOf(made) ==
    /\ ~Raised(made)
    /\ ~Raised(show_training_info(made.val))
    /\ show_training_info(made.val).val.training_type = "Running"
    /\ Near(show_training_info(made.val).val.distance, 975, 100, Rat(5, 1000))
    /\ Near(show_training_info(made.val).val.speed, 975, 100, Rat(5, 1000))
    /\ Near(show_training_info(made.val).val.calories, 7868, 100, Rat(5, 1000))
    /\ REq(show_training_info(made.val).val.calories,
           RMul(RMul(RDiv(RMul(RAdd(RMul(Q(18), Rat(975, 100)), Rat(179, 100)), Q(75)),
                          Q(1000)),
                     Q(1)),
                Q(60)))

C5_FactoryRoundTrip ==
    (ret.op = "read_package" /\ ret.arg = <<"RUN", <<15000, 1, 75>>>>)
        => C5_SummaryOf(ret.res)

(***************************************************************************)
(* C6.  Swimming.get_mean_speed is pool length * lap count / 1000 /        *)
(* duration and depends on nothing else: every Swimming record with the    *)
(* same pool length, lap count and duration has the same mean speed,       *)
(* whatever its action count and weight; get_distance of a Swimming record *)
(* is still action count * 1.38 / 1000.                                    *)
(***************************************************************************)
SamePool(a, b) ==
    /\ a.attrs.lenght_pool = b.attrs.lenght_pool
    /\ a.attrs.count_pool = b.attrs.count_pool
    /\ a.attrs.duration = b.attrs.duration

C6_SwimmingSpeedFromPoolOnly ==
    /\ (ret.op = "get_mean_speed" /\ objs[ret.arg].cls = "Swimming" /\ ~Raised(ret.res))
         => /\ REq(ret.res.val,
                   Rat(objs[ret.arg].attrs.lenght_pool * objs[ret.arg].attrs.count_pool,
                       1000 * objs[ret.arg].attrs.duration))
            /\ \A other \in Trainings :
                 (other.cls = "Swimming" /\ SamePool(other, objs[ret.arg]))
                     => /\ ~Raised(get_mean_speed(other))
                        /\ REq(get_mean_speed(other).val, ret.res.val)
    /\ (ret.op = "get_distance" /\ objs[ret.arg].cls = "Swimming")
         => /\ ~Raised(ret.res)
            /\ REq(ret.res.val, Rat(objs[ret.arg].attrs.action * 138, 100 * 1000))

C6_Witness ==
    /\ ret.op = "get_mean_speed"
    /\ objs[ret.arg].cls = "Swimming"
    /\ ~Raised(ret.res)
    /\ objs[ret.arg].attrs.action = 15000
    /\ \E other \in Trainings :
         /\ other.cls = "Swimming"
         /\ SamePool(other, objs[ret.arg])
         /\ other.attrs.action # objs[ret.arg].attrs.action
         /\ other.attrs.weight # objs[ret.arg].attrs.weight

(***************************************************************************)
(* C7.  As stated: get_message returns "Training type: {kind}; Duration:   *)
(* ... h; Distance: ... km; Avg speed: ... km/h; Calories: ....", the five *)
(* fields in that order, every number with exactly three decimals.         *)
(***************************************************************************)
C7_EnglishTemplate ==
    ret.op = "get_message"
        => FollowsTemplate(ret.res.val, EnglishLabels, infos[ret.arg])

(***************************************************************************)
(* C7, amended.  get_message returns the program's own fixed template,     *)
(* whose labels are the Russian ones of InfoMessage.MESSAGE, with the five *)
(* fields in the order kind, duration, distance, speed, calories and every *)
(* number written with exactly three decimals (9.0 as 9.000).              *)
(***************************************************************************)
C7_RussianTemplate ==
    ret.op = "get_message"
        => FollowsTemplate(ret.res.val, RussianLabels, infos[ret.arg])

C7_Witness ==
    /\ ret.op = "get_message"
    /\ REq(infos[ret.arg].distance, Q(9))
    /\ ~REq(infos[ret.arg].speed, infos[ret.arg].distance)
    /\ Contains(ret.res.val, RussianLabels[3] \o <<57, 46, 48, 48, 48>> \o RussianLabels[4])

(***************************************************************************)
(* C8.  For a SportsWalking record with duration > 0 and height > 0,       *)
(* get_spent_calories is (0.035 * weight + ((speed * 0.278)^2 / (height /  *)
(* 100)) * 0.029 * weight) * duration * 60 with speed = action * 0.65 /    *)
(* 1000 / duration: the minutes factor is 60, not the class's 360.         *)
(***************************************************************************)
WalkingSpeed(a) == RDiv(RDiv(RMul(Q(a.action), Rat(65, 100)), Q(1000)), Q(a.duration))

WalkingCalories(a) ==
    RMul(RMul(RAdd(RMul(Rat(35, 1000), Q(a.weight)),
                   RMul(RMul(RDiv(RSquare(RMul(WalkingSpeed(a), Rat(278, 1000))),
                                  Rat(a.height, 100)),
                             Rat(29, 1000)),
                        Q(a.weight))),
              Q(a.duration)),
         Q(60))

C8_WalkingCalories ==
    (/\ ret.op = "get_spent_calories"
     /\ objs[ret.arg].cls = "SportsWalking"
     /\ objs[ret.arg].attrs.duration > 0
     /\ objs[ret.arg].attrs.height > 0)
        => /\ ~Raised(ret.res)
           /\ REq(ret.res.val, WalkingCalories(objs[ret.arg].attrs))

C8_Witness ==
    /\ ret.op = "get_spent_calories"
    /\ objs[ret.arg].cls = "SportsWalking"
    /\ objs[ret.arg].attrs.duration = 2
    /\ objs[ret.arg].attrs.height = 180
    /\ ~Raised(ret.res)
    /\ ~RIsZero(ret.res.val)

FirstUnrecognized(k) ==
    /\ k \in DOMAIN packages
    /\ packages[k].code \notin Recognized
    /\ \A j \in 1..(k - 1) : WellFormed(packages[j].code, packages[j].data)

C10_AbortAfterEarlierLines ==
    \A k \in DOMAIN packages :
        (FirstUnrecognized(k) /\ status # "running")
            => /\ status = "aborted"
               /\ Len(stdout) = k - 1
               /\ \A i \in 1..(k - 1) : LineOfRecord(i)

====
